---------------------------- MODULE Spec2Model ----------------------------
(***************************************************************************)
(* A model of vsibrowse: the lazily populated tree of VSI items            *)
(* (VSIItem, VSIFileSystemModel), the browser window's handlers            *)
(* (VSIFileSystemBrowser) and the Sync worker (VSISyncWorker).             *)
(*                                                                         *)
(* The external library (GDAL's virtual filesystem) is the environment:    *)
(* every call into it (VSIStatL, OpenDir/GetNextDirEntry, GetFileMetadata, *)
(* Sync) returns a value chosen nondeterministically from a small set.     *)
(* The handlers of the GUI thread are atomic (one event loop); a worker's  *)
(* run is a step of a pool thread, and the finished signal it emits is     *)
(* delivered to the GUI thread by a later step (a queued connection).      *)
(***************************************************************************)
EXTENDS Integers, Sequences, FiniteSets, TLC

(***************************************************************************)
(* Bounds of the model.                                                    *)
(***************************************************************************)
\* the nodes one model's tree may hold (the virtual filesystem is finite)
MaxNodes == 3
\* the downloads started in one run of the program
MaxDownloads == 2
\* the drivers the library has registered
MaxDrivers == 2

(***************************************************************************)
(* The inputs the environment draws from.                                  *)
(***************************************************************************)
\* A URL text is a sequence of tokens: "/" or a name.
UrlTexts == { <<>>, <<"/", "d">>, <<"/", "d", "/">> }
\* the names a directory entry may carry
EntryNames == {"a", "b.tif"}
\* what VSIStatL answers: nothing, a plain object, a directory
StatResults == {"none", "file", "dir"}
\* the paths the save-file dialog returns ("" when it is cancelled)
DestPaths == {"", "out"}
\* what Sync returns when it does not raise (a bool, which the finished
\* signal carries as an int)
SyncValues == {0, 1}
\* the metadata domains get_metadata walks, in order
Domains == <<"HEADERS", "TAGS", "STATUS", "ACL", "METADATA">>

EmptyDict == [k \in {} |-> ""]
\* what GetFileMetadata answers for one domain (None and {} are both falsy
\* for the caller and are the one empty answer here)
MetaResponses == { EmptyDict, [k \in {"k"} |-> "v"] }

(***************************************************************************)
(* pathlib.PurePosixPath, as far as the program uses it.                   *)
(***************************************************************************)
RECURSIVE LeadingSlashes(_)
LeadingSlashes(t) ==
    IF t = <<>> \/ Head(t) # "/" THEN 0 ELSE 1 + LeadingSlashes(Tail(t))

IsPart(tok) == tok \notin {"/", ".", ""}

\* PurePosixPath(text): repeated and trailing slashes and "." components are
\* dropped; exactly two leading slashes are kept as the root "//".
PurePosixPath(t) ==
    LET n == LeadingSlashes(t)
    IN [ anchor |-> IF n = 0 THEN "" ELSE IF n = 2 THEN "//" ELSE "/",
         parts  |-> SelectSeq(t, IsPart) ]

RECURSIVE JoinParts(_)
JoinParts(ps) ==
    IF ps = <<>> THEN <<>>
    ELSE IF Len(ps) = 1 THEN <<ps[1]>>
    ELSE <<ps[1], "/">> \o JoinParts(Tail(ps))

\* str(path)
Str(p) ==
    IF p.anchor = "" /\ p.parts = <<>> THEN <<".">>
    ELSE (IF p.anchor = "" THEN <<>>
          ELSE IF p.anchor = "/" THEN <<"/">> ELSE <<"/", "/">>)
         \o JoinParts(p.parts)

\* path / name
Truediv(p, name) ==
    LET q == PurePosixPath(<<name>>)
    IN IF q.anchor # "" THEN q
       ELSE [ anchor |-> p.anchor, parts |-> p.parts \o q.parts ]

(***************************************************************************)
(* dict | dict                                                             *)
(***************************************************************************)
DictUnion(a, b) ==
    [k \in (DOMAIN a) \cup (DOMAIN b) |-> IF k \in DOMAIN b THEN b[k] ELSE a[k]]

(***************************************************************************)
(* The state.                                                              *)
(***************************************************************************)
VARIABLES
    extension_mapping, \* the module's extension_mapping dict
    url,              \* VSIFileSystemBrowser.url
    urlEdit,          \* the text of the URL field
    nodes,            \* the VSIItems of the held model; nodes[1] is _root;
                      \* <<>> while VSIFileSystemBrowser.model is None
    current,          \* the node of the tree view's current index, 0: invalid
    propertiesTable,  \* the rows the properties table shows
    log,              \* logTextEdit, one record per appended line
    workers,          \* the VSISyncWorkers handed to the thread pool
    ev                \* what the last step did: its operation, the node (or
                      \* worker) it acted on, what it returned, the library
                      \* functions it called, whether OpenDir opened the
                      \* directory and the names GetNextDirEntry gave, and
                      \* the rows it announced with beginInsertRows, the
                      \* drivers update_extension_mapping read, and the
                      \* path find_driver_for_url was given and what it
                      \* returned (<<>>: None)

vars == <<extension_mapping, url, urlEdit, nodes, current, propertiesTable, log, workers, ev>>

Root == 1
NoEv == [op |-> "init", node |-> 0, ret |-> FALSE, calls |-> {},
         opened |-> FALSE, names |-> <<>>,
         announced |-> FALSE, first |-> 0, last |-> 0,
         drivers |-> <<>>, path |-> <<>>, found |-> <<>>]
Ev(op, n, ret, calls) == [NoEv EXCEPT !.op = op, !.node = n, !.ret = ret,
                                      !.calls = calls]

Init ==
    /\ extension_mapping = EmptyDict
    /\ url = <<>>
    /\ urlEdit = <<>>
    /\ nodes = <<>>
    /\ current = 0
    /\ propertiesTable = EmptyDict
    /\ log = <<>>
    /\ workers = <<>>
    /\ ev = NoEv

(***************************************************************************)
(* VSIItem                                                                 *)
(***************************************************************************)
\* VSIItem.__init__, stat being VSIStatL's answer.  opens and queries count
\* the OpenDir and GetFileMetadata calls made for the node.
NewItem(u, parent, stat) ==
    [ url |-> u, parent |-> parent, children |-> <<>>, metadata |-> EmptyDict,
      is_dir |-> (stat = "dir"), row |-> 0,
      attempted_listing |-> FALSE, attempted_metadata |-> FALSE,
      opens |-> 0, queries |-> 0 ]

childCount(ns, n) == Len(ns[n].children)
\* (mutant: whether the node is a directory is not looked at)
canFetchMore_AnyNode(ns, n) == ~ns[n].attempted_listing
canFetchMore(ns, n) == ns[n].is_dir /\ ~ns[n].attempted_listing
canFetchMetadata(ns, n) == ~ns[n].is_dir /\ ~ns[n].attempted_metadata
hasChildren(ns, n) == canFetchMore(ns, n) \/ childCount(ns, n) # 0

\* A directory listing: what OpenDir and the GetNextDirEntry calls after it
\* answer, each entry with the answer VSIStatL gives for the child.
\* opened = FALSE: OpenDir returned None.
NoListing == [opened |-> FALSE, entries |-> <<>>]
Entries(k) == UNION { [1..m -> [name : EntryNames, stat : StatResults]] : m \in 0..k }
Listings(k) == { NoListing } \cup { [opened |-> TRUE, entries |-> e] : e \in Entries(k) }

\* (mutant: the child keeps the row 0 that __init__ gave it)
NewChild_RowUnset(ns, n, e, row) == NewItem(Truediv(ns[n].url, e.name), n, e.stat)

\* the child populate_children builds for one entry
NewChild(ns, n, e, row) ==
    [NewItem(Truediv(ns[n].url, e.name), n, e.stat) EXCEPT !.row = row]

\* (mutant: every child is put in front of the children already there)
RECURSIVE AppendChildren_Reversed(_, _, _, _)
AppendChildren_Reversed(ns, n, entries, row) ==
    IF entries = <<>> THEN ns
    ELSE LET id  == Len(ns) + 1
             ns2 == Append([ns EXCEPT ![n].children = <<id>> \o @],
                           NewChild(ns, n, Head(entries), row))
         IN AppendChildren_Reversed(ns2, n, Tail(entries), row + 1)

\* the nodes after the while loop of populate_children has appended a child
\* for every entry
RECURSIVE AppendChildren(_, _, _, _)
AppendChildren(ns, n, entries, row) ==
    IF entries = <<>> THEN ns
    ELSE LET id  == Len(ns) + 1
             ns2 == Append([ns EXCEPT ![n].children = Append(@, id)],
                           NewChild(ns, n, Head(entries), row))
         IN AppendChildren(ns2, n, Tail(entries), row + 1)

\* (mutant: the listing is not guarded by _attempted_listing)
PopulateNodes_Unguarded(ns, n, listing) ==
    LET ns1 == [ns EXCEPT ![n].attempted_listing = TRUE]
    IN IF ~ns[n].is_dir THEN ns1
       ELSE LET ns2 == [ns1 EXCEPT ![n].opens = @ + 1]
            IN IF ~listing.opened THEN ns2
               ELSE AppendChildren(ns2, n, listing.entries, 0)

\* (mutant: _attempted_listing is set only once the directory has opened)
PopulateNodes_FlagAfterOpen(ns, n, listing) ==
    IF ns[n].attempted_listing THEN ns
    ELSE IF ~ns[n].is_dir THEN [ns EXCEPT ![n].attempted_listing = TRUE]
    ELSE LET ns2 == [ns EXCEPT ![n].opens = @ + 1]
         IN IF ~listing.opened THEN ns2
            ELSE AppendChildren([ns2 EXCEPT ![n].attempted_listing = TRUE],
                                n, listing.entries, 0)

\* VSIItem.populate_children: the nodes after the call
PopulateNodes(ns, n, listing) ==
    IF ns[n].attempted_listing THEN ns
    ELSE LET ns1 == [ns EXCEPT ![n].attempted_listing = TRUE]
         IN IF ~ns[n].is_dir THEN ns1
            ELSE LET ns2 == [ns1 EXCEPT ![n].opens = @ + 1]
                 IN IF ~listing.opened THEN ns2
                    ELSE AppendChildren(ns2, n, listing.entries, 0)

\* VSIItem.populate_children: the value returned
PopulateReturn(ns, n, listing) ==
    IF ~ns[n].attempted_listing /\ ns[n].is_dir /\ ~listing.opened THEN FALSE
    ELSE childCount(PopulateNodes(ns, n, listing), n) # 0

\* the names populate_children reads from the directory
RECURSIVE NamesOf(_)
NamesOf(entries) ==
    IF entries = <<>> THEN <<>> ELSE <<Head(entries).name>> \o NamesOf(Tail(entries))

PopulateOpened(ns, n, listing) ==
    ~ns[n].attempted_listing /\ ns[n].is_dir /\ listing.opened

\* the library functions populate_children calls
PopulateCalls(ns, n, listing) ==
    IF ns[n].attempted_listing \/ ~ns[n].is_dir THEN {}
    ELSE IF ~listing.opened THEN {"OpenDir"}
    ELSE {"OpenDir", "GetNextDirEntry", "CloseDir"}
         \cup (IF listing.entries # <<>> THEN {"VSIStatL"} ELSE {})

\* a direct call of populate_children on node n, the library answering listing
PopulateChildren(n, listing) ==
    /\ nodes' = PopulateNodes(nodes, n, listing)
    /\ ev' = [Ev("populate_children", n, PopulateReturn(nodes, n, listing),
                   PopulateCalls(nodes, n, listing))
                EXCEPT !.opened = PopulateOpened(nodes, n, listing),
                       !.names = IF PopulateOpened(nodes, n, listing)
                                 THEN NamesOf(listing.entries) ELSE <<>>]
    /\ UNCHANGED <<extension_mapping, url, urlEdit, current, propertiesTable, log, workers>>

\* VSIItem.get_metadata: the metadata after the loop over the domains,
\* resp[i] being what GetFileMetadata answers for Domains[i]
RECURSIVE MergeDomains(_, _, _)
MergeDomains(md, resp, i) ==
    IF i > Len(Domains) THEN md
    ELSE MergeDomains(IF DOMAIN resp[i] # {} THEN DictUnion(md, resp[i]) ELSE md,
                      resp, i + 1)

\* (mutant: _attempted_metadata is set only when metadata was found)
GetMetadataNodes_FlagWhenFound(ns, n, resp) ==
    IF ns[n].attempted_metadata THEN ns
    ELSE IF ns[n].is_dir THEN [ns EXCEPT ![n].attempted_metadata = TRUE]
    ELSE LET md == MergeDomains(ns[n].metadata, resp, 1)
         IN [ns EXCEPT ![n].queries = @ + Len(Domains),
                       ![n].metadata = md,
                       ![n].attempted_metadata = (DOMAIN md # {})]

\* VSIItem.get_metadata: the nodes after the call
GetMetadataNodes(ns, n, resp) ==
    IF ns[n].attempted_metadata THEN ns
    ELSE LET ns1 == [ns EXCEPT ![n].attempted_metadata = TRUE]
         IN IF ns[n].is_dir THEN ns1
            ELSE [ns1 EXCEPT ![n].queries = @ + Len(Domains),
                             ![n].metadata = MergeDomains(@, resp, 1)]

\* VSIItem.get_metadata: the value returned
GetMetadataReturn(ns, n, resp) == DOMAIN GetMetadataNodes(ns, n, resp)[n].metadata # {}

\* the library functions get_metadata calls
GetMetadataCalls(ns, n) ==
    IF ns[n].attempted_metadata \/ ns[n].is_dir THEN {} ELSE {"GetFileMetadata"}

\* a direct call of get_metadata on node n, the library answering resp
GetMetadata(n, resp) ==
    /\ nodes' = GetMetadataNodes(nodes, n, resp)
    /\ ev' = Ev("get_metadata", n, GetMetadataReturn(nodes, n, resp),
                GetMetadataCalls(nodes, n))
    /\ UNCHANGED <<extension_mapping, url, urlEdit, current, propertiesTable, log, workers>>

(***************************************************************************)
(* VSIFileSystemModel                                                      *)
(***************************************************************************)
\* A QModelIndex: createIndex(row, column, ptr), or the invalid QModelIndex().
InvalidIndex == [valid |-> FALSE, row |-> -1, column |-> -1, ptr |-> 0]
createIndex(row, column, ptr) ==
    [valid |-> TRUE, row |-> row, column |-> column, ptr |-> ptr]

\* the node a parent index stands for in index, canFetchMore, fetchMore and
\* hasChildren
NodeOf(idx) == IF ~idx.valid THEN Root ELSE idx.ptr

rowCount(ns, idx) ==
    IF idx.valid /\ idx.ptr # 0 THEN childCount(ns, idx.ptr)
    ELSE childCount(ns, Root)

columnCount == 4

\* QAbstractItemModel.hasIndex
hasIndex(ns, row, column, parentIdx) ==
    /\ row >= 0
    /\ column >= 0
    /\ row < rowCount(ns, parentIdx)
    /\ column < columnCount

\* VSIItem.child (0: None)
child(ns, n, row) ==
    IF row >= 0 /\ row < childCount(ns, n) THEN ns[n].children[row + 1] ELSE 0

\* VSIFileSystemModel.index
index(ns, row, column, parentIdx) ==
    LET node == NodeOf(parentIdx)
    IN IF ~hasIndex(ns, row, column, parentIdx) THEN InvalidIndex
       ELSE LET c == child(ns, node, row)
            IN IF c # 0 THEN createIndex(row, column, c) ELSE InvalidIndex

\* VSIFileSystemModel.parent
parent(ns, idx) ==
    IF idx.valid
    THEN LET p == ns[idx.ptr].parent
         IN IF p # 0 THEN createIndex(ns[p].row, 0, p) ELSE InvalidIndex
    ELSE InvalidIndex

\* the rows fetchMore announces with beginInsertRows(parent, first, last)
\* after populate_children has run
AnnouncedFirst(ns, n) == 0
AnnouncedLast(ns, n) == Len(ns[n].children)

\* VSIFileSystemModel.fetchMore(parent), n being the node of parent and
\* listing the library's answer
FetchMore(n, listing) ==
    /\ IF canFetchMore(nodes, n)
       THEN LET ns == PopulateNodes(nodes, n, listing)
            IN /\ nodes' = ns
               /\ ev' = [Ev("fetchMore", n, PopulateReturn(nodes, n, listing),
                            PopulateCalls(nodes, n, listing))
                           EXCEPT !.opened = PopulateOpened(nodes, n, listing),
                                  !.names = IF PopulateOpened(nodes, n, listing)
                                            THEN NamesOf(listing.entries) ELSE <<>>,
                                  !.announced = TRUE,
                                  !.first = AnnouncedFirst(ns, n),
                                  !.last = AnnouncedLast(ns, n)]
       ELSE /\ nodes' = nodes
            /\ ev' = Ev("fetchMore", n, FALSE, {})
    /\ UNCHANGED <<extension_mapping, url, urlEdit, current, propertiesTable, log, workers>>

(***************************************************************************)
(* VSIFileSystemBrowser                                                    *)
(***************************************************************************)
\* the user edits the URL field
EditUrl(text) ==
    /\ text # urlEdit
    /\ urlEdit' = text
    /\ ev' = Ev("edit", 0, FALSE, {})
    /\ UNCHANGED <<extension_mapping, url, nodes, current, propertiesTable, log, workers>>

\* VSIFileSystemBrowser.populate(text): a new model, whose root VSIItem stats
\* the path; the tree view gets the new model and with it a new selection
\* model, which has no current index
Populate(text, stat) ==
    /\ url' = text
    /\ nodes' = <<NewItem(PurePosixPath(text), 0, stat)>>
    /\ urlEdit' = text
    /\ current' = 0
    /\ ev' = Ev("populate", Root, FALSE, {"VSIStatL"})
    /\ UNCHANGED <<extension_mapping, propertiesTable, log, workers>>

\* (mutant: the paths are compared, not the texts)
RefreshNeeded_ByPath(held, text) == PurePosixPath(held) # PurePosixPath(text)

\* whether refreshButtonClicked rebuilds
RefreshNeeded(held, text) == held # text

\* VSIFileSystemBrowser.refreshButtonClicked, stat being the library's answer
\* for the root when it rebuilds
RefreshButtonClicked(stat) ==
    IF RefreshNeeded(url, urlEdit)
    THEN Populate(urlEdit, stat)
    ELSE /\ ev' = Ev("refresh", 0, FALSE, {})
         /\ UNCHANGED <<extension_mapping, url, urlEdit, nodes, current, propertiesTable,
                        log, workers>>

\* whether currentChanged calls get_metadata on the node
FetchesMetadata(ns, n) == DOMAIN ns[n].metadata = {} /\ canFetchMetadata(ns, n)

\* The tree view makes n's index the current one (n = 0: no current index)
\* and the selection model's currentChanged signal runs
\* VSIFileSystemBrowser.currentChanged; resp is the library's answer.
CurrentChanged(n, resp) ==
    /\ n # current
    /\ current' = n
    /\ IF n = 0
       THEN /\ UNCHANGED <<nodes, propertiesTable>>
            /\ ev' = Ev("currentChanged", 0, FALSE, {})
       ELSE IF FetchesMetadata(nodes, n)
       THEN LET ns == GetMetadataNodes(nodes, n, resp)
            IN /\ nodes' = ns
               /\ propertiesTable' = ns[n].metadata
               /\ ev' = Ev("currentChanged", n, FALSE, GetMetadataCalls(nodes, n))
       ELSE /\ nodes' = nodes
            /\ propertiesTable' = nodes[n].metadata
            /\ ev' = Ev("currentChanged", n, FALSE, {})
    /\ UNCHANGED <<extension_mapping, url, urlEdit, log, workers>>

\* (mutant: a directory is downloaded too)
DownloadStarts_AnySelection(ns, cur) == cur # 0

\* whether download goes on to start a worker
DownloadStarts(ns, cur) == cur # 0 /\ ~ns[cur].is_dir

\* the source download hands to the worker
DownloadSource(ns, cur) == Str(ns[cur].url)

\* VSISyncWorker.__init__; called, raised, value, sig, syncCalls, emits and
\* escaped record what run passes to Sync, what Sync does, what run passes
\* to the finished signal, how often, and whether an exception leaves run
NewWorker(src, dest) ==
    [ src |-> src, dest |-> dest, pc |-> "queued",
      raised |-> FALSE, value |-> 0, escaped |-> FALSE,
      called |-> [src |-> <<>>, dest |-> ""],
      sig |-> [src |-> <<>>, dest |-> "", result |-> 0],
      syncCalls |-> 0, emits |-> 0 ]

\* the line download appends ('Starting a thread to run Sync(), ...')
StartLine(src, dest) == [kind |-> "start", src |-> src, dest |-> dest]

\* a line of the log, with the worker it is about
Line(l, w) == [kind |-> l.kind, src |-> l.src, dest |-> l.dest, w |-> w]

\* VSIFileSystemBrowser.download, dest being the path the dialog returns
Download(dest) ==
    IF DownloadStarts(nodes, current)
    THEN /\ Len(workers) < MaxDownloads
         /\ LET src == DownloadSource(nodes, current)
            IN /\ workers' = Append(workers, NewWorker(src, dest))
               /\ log' = Append(log, Line(StartLine(src, dest), Len(workers) + 1))
         /\ ev' = Ev("download", current, TRUE, {})
         /\ UNCHANGED <<extension_mapping, url, urlEdit, nodes, current, propertiesTable>>
    ELSE /\ ev' = Ev("download", current, FALSE, {})
         /\ UNCHANGED <<extension_mapping, url, urlEdit, nodes, current, propertiesTable,
                        log, workers>>

(***************************************************************************)
(* VSISyncWorker                                                           *)
(***************************************************************************)
\* the result run emits: Sync's value, or 0 when Sync raised
EmittedResult(raised, value) == IF raised THEN 0 ELSE value

\* (mutant: run does not catch what Sync raises)
RunWorker_NoCatch(wk, raised, value) ==
    IF raised
    THEN [wk EXCEPT !.pc = "escaped", !.raised = TRUE, !.escaped = TRUE,
                    !.called = [src |-> wk.src, dest |-> wk.dest],
                    !.syncCalls = @ + 1]
    ELSE [wk EXCEPT !.pc = "emitted",
                    !.value = value,
                    !.called = [src |-> wk.src, dest |-> wk.dest],
                    !.syncCalls = @ + 1,
                    !.emits = @ + 1,
                    !.sig = [src |-> wk.src, dest |-> wk.dest,
                             result |-> EmittedResult(raised, value)]]

\* VSISyncWorker.run: the worker after the call, Sync having raised or
\* returned value
RunWorker(wk, raised, value) ==
    [wk EXCEPT !.pc = "emitted",
               !.raised = raised,
               !.value = IF raised THEN 0 ELSE value,
               !.called = [src |-> wk.src, dest |-> wk.dest],
               !.syncCalls = @ + 1,
               !.emits = @ + 1,
               !.sig = [src |-> wk.src, dest |-> wk.dest,
                        result |-> EmittedResult(raised, value)]]

\* a pool thread runs worker w
Run(w, raised, value) ==
    /\ workers[w].pc = "queued"
    /\ workers' = [workers EXCEPT ![w] = RunWorker(@, raised, value)]
    /\ ev' = Ev("run", w, FALSE, {"Sync"})
    /\ UNCHANGED <<extension_mapping, url, urlEdit, nodes, current, propertiesTable, log>>

\* (mutant: 0 is taken for success)
FinishLine_ZeroIsSuccess(src, dest, result) ==
    [kind |-> IF result = 0 THEN "success" ELSE "failed", src |-> src, dest |-> dest]

\* the line syncFinished appends ('... was successful.' or '... failed.')
FinishLine(src, dest, result) ==
    [kind |-> IF result = 1 THEN "success" ELSE "failed", src |-> src, dest |-> dest]

\* The event loop of the GUI thread delivers worker w's finished signal to
\* VSIFileSystemBrowser.syncFinished.
SyncFinished(w) ==
    /\ workers[w].pc = "emitted"
    /\ workers' = [workers EXCEPT ![w].pc = "done"]
    /\ log' = Append(log, Line(FinishLine(workers[w].sig.src, workers[w].sig.dest,
                                          workers[w].sig.result), w))
    /\ ev' = Ev("syncFinished", w, FALSE, {})
    /\ UNCHANGED <<extension_mapping, url, urlEdit, nodes, current, propertiesTable>>

(***************************************************************************)
(* update_extension_mapping and find_driver_for_url                        *)
(***************************************************************************)
\* the short names of the drivers
DriverNames == {"GTiff", "VRT"}
\* A driver's metadata: ext is <<>> when it has no DMD_EXTENSION item, else
\* <<the item's string>>; exts is <<>> when it has no DMD_EXTENSIONS item,
\* else <<the item's string>>, that string written as the sequence of its
\* words and the separators between them (<<>>: the empty string).
ExtensionItems == { <<>>, <<"">>, <<"TIF">> }
ExtensionsItems == { <<>>, << <<>> >>, << <<"tif", ",", "GZ">> >>,
                     << <<"gz", ";", " ", "xml">> >> }
\* GetDriver(i) returning None
NoDriver == [present |-> FALSE, name |-> "", ext |-> <<>>, exts |-> <<>>]
Drivers ==
    { NoDriver } \cup
    [present : {TRUE}, name : DriverNames, ext : ExtensionItems, exts : ExtensionsItems]
\* the driver lists GetDriverCount and GetDriver may answer with
DriverLists == UNION { [1..k -> Drivers] : k \in 0..MaxDrivers }

\* str.lower
Lower(t) == CASE t = "TIF" -> "tif" [] t = "GZ" -> "gz" [] OTHER -> t
LowerAll(str) == [i \in DOMAIN str |-> Lower(str[i])]
\* str.replace(old, new), old being one of the separators
Replace(str, old, new) == [i \in DOMAIN str |-> IF str[i] = old THEN new ELSE str[i]]
\* str.split(): the words between the white space
Split(str) == SelectSeq(str, LAMBDA t : t # " ")

\* extension_mapping[ext] = name
SetItem(m, ext, name) == [k \in (DOMAIN m) \cup {ext} |-> IF k = ext THEN name ELSE m[k]]
\* extension_mapping.pop(ext, None)
Pop(m, ext) == [k \in (DOMAIN m) \ {ext} |-> m[k]]

\* for ext in tmp_list: extension_mapping[ext] = name
RECURSIVE SetItems(_, _, _)
SetItems(m, exts, name) ==
    IF exts = <<>> THEN m ELSE SetItems(SetItem(m, Head(exts), name), Tail(exts), name)

\* the body of the loop of update_extension_mapping for one driver
AddDriver(m, driver) ==
    IF ~driver.present THEN m
    ELSE LET m1 == IF driver.ext # <<>>
                   THEN SetItem(m, Lower(driver.ext[1]), driver.name) ELSE m
         IN IF driver.exts # <<>> /\ driver.exts[1] # <<>>
            THEN SetItems(m1, Split(Replace(Replace(LowerAll(driver.exts[1]),
                                                    ",", " "), ";", " ")),
                          driver.name)
            ELSE m1

\* (mutant: the drivers are walked from the first to the last)
RECURSIVE WalkDrivers_Forward(_, _, _)
WalkDrivers_Forward(m, ds, i) ==
    IF i = 0 THEN m
    ELSE WalkDrivers_Forward(AddDriver(m, ds[Len(ds) - i + 1]), ds, i - 1)

\* for i in reversed(range(0, count)), i counting from count down to 1 here
RECURSIVE WalkDrivers(_, _, _)
WalkDrivers(m, ds, i) ==
    IF i = 0 THEN m ELSE WalkDrivers(AddDriver(m, ds[i]), ds, i - 1)

\* update_extension_mapping: the mapping after the call
UpdatedMapping(m, ds) ==
    IF DOMAIN m # {} THEN m
    ELSE Pop(Pop(Pop(WalkDrivers(m, ds, Len(ds)), "xml"), "bin"), "txt")

\* update_extension_mapping, ds being the library's drivers; ev.ret tells
\* whether the call went past its first test and read them
UpdateExtensionMapping(ds) ==
    /\ extension_mapping' = UpdatedMapping(extension_mapping, ds)
    /\ ev' = IF DOMAIN extension_mapping # {}
             THEN Ev("update_extension_mapping", 0, FALSE, {})
             ELSE [Ev("update_extension_mapping", 0, TRUE,
                      {"GetDriverCount"} \cup (IF ds # <<>> THEN {"GetDriver"} ELSE {}))
                     EXCEPT !.drivers = ds]
    /\ UNCHANGED <<url, urlEdit, nodes, current, propertiesTable, log, workers>>

\* A path as find_driver_for_url reads it: its components, each written as
\* the sequence of its dot-free pieces and the dots between them.
PathNames == { <<"a">>, <<".", "tif">>, <<"a", ".", "tif">>, <<"a", ".", "TIF">>,
               <<"a", ".", "tar", ".", "gz">>, <<"a", ".", "xml">> }
FindUrls == { <<>> } \cup { <<n>> : n \in PathNames }
                    \cup { << <<"d", ".", "tif">>, <<"a">> >> }

\* PurePosixPath.name
Name(path) == IF path = <<>> THEN <<>> ELSE path[Len(path)]
\* str.rfind('.'), counting from 1 (0: not found)
RECURSIVE RFindDot(_, _)
RFindDot(str, i) ==
    IF i = 0 THEN 0 ELSE IF str[i] = "." THEN i ELSE RFindDot(str, i - 1)
\* PurePosixPath.suffix
Suffix(path) ==
    LET name == Name(path)
        i    == RFindDot(name, Len(name))
    IN IF 1 < i /\ i < Len(name) THEN SubSeq(name, i, Len(name)) ELSE <<>>
\* the string a dot-free sequence of pieces spells
Text(str) == IF str = <<>> THEN "" ELSE str[1]
\* dict.get(key) (<<>>: None)
Get(m, key) == IF key \in DOMAIN m THEN <<m[key]>> ELSE <<>>

\* find_driver_for_url: the value returned
FindDriver(m, path) ==
    LET ext == Suffix(path)
    IN IF ext = <<>> THEN <<>>
       ELSE Get(m, Text(IF Head(ext) = "." THEN Tail(ext) ELSE ext))

\* a call of find_driver_for_url
FindDriverForUrl(path) ==
    /\ ev' = [Ev("find_driver_for_url", 0, FALSE, {})
                EXCEPT !.path = path, !.found = FindDriver(extension_mapping, path)]
    /\ UNCHANGED <<extension_mapping, url, urlEdit, nodes, current,
                   propertiesTable, log, workers>>

(***************************************************************************)
(* What the environment may answer.                                        *)
(***************************************************************************)
\* the listings the bounded filesystem may answer for node n
ListingsFor(ns, n) ==
    IF canFetchMore(ns, n) THEN Listings(MaxNodes - Len(ns)) ELSE { NoListing }

NoResponse == [i \in DOMAIN Domains |-> EmptyDict]
\* the answers the library may give to one get_metadata call on node n
ResponsesFor(ns, n) ==
    IF n = 0 \/ GetMetadataCalls(ns, n) = {} THEN { NoResponse }
    ELSE [DOMAIN Domains -> MetaResponses]

\* the nodes the tree view has an index for (0: none is current)
Selectable(ns) == (0..Len(ns)) \ {Root}

\* One filesystem: the root is a directory holding the object a and the
\* directory b.tif, which cannot be opened.
DiskListing(ns, n) ==
    IF n = Root /\ canFetchMore(ns, n)
    THEN [opened |-> TRUE,
          entries |-> << [name |-> "a", stat |-> "file"],
                         [name |-> "b.tif", stat |-> "dir"] >>]
    ELSE NoListing

(***************************************************************************)
(* Spec: the tree of items against every filesystem within the bounds,     *)
(* populate_children being called by fetchMore and directly.               *)
(***************************************************************************)
Next ==
    \/ \E text \in UrlTexts : EditUrl(text)
    \/ \E stat \in StatResults : RefreshButtonClicked(stat)
    \/ \E n \in 1..Len(nodes) : \E l \in ListingsFor(nodes, n) : FetchMore(n, l)
    \/ \E n \in 1..Len(nodes) : \E l \in ListingsFor(nodes, n) : PopulateChildren(n, l)

Spec == Init /\ [][Next]_vars

(***************************************************************************)
(* BrowseSpec: selection and metadata, against the one filesystem and      *)
(* every answer of GetFileMetadata, get_metadata being called by           *)
(* currentChanged and directly.                                            *)
(***************************************************************************)
BrowseNext ==
    \/ \E text \in UrlTexts : EditUrl(text)
    \/ \E stat \in StatResults : RefreshButtonClicked(stat)
    \/ \E n \in 1..Len(nodes) : FetchMore(n, DiskListing(nodes, n))
    \/ \E n \in 1..Len(nodes) : \E r \in ResponsesFor(nodes, n) : GetMetadata(n, r)
    \/ \E n \in Selectable(nodes) : \E r \in ResponsesFor(nodes, n) : CurrentChanged(n, r)

BrowseSpec == Init /\ [][BrowseNext]_vars

(***************************************************************************)
(* SyncSpec: downloads, against the one filesystem at the one URL, no       *)
(* object having metadata.                                                 *)
(***************************************************************************)
DiskUrl == <<"/", "d", "/">>

SyncNext ==
    \/ EditUrl(DiskUrl)
    \/ \E stat \in StatResults : RefreshButtonClicked(stat)
    \/ \E n \in 1..Len(nodes) : FetchMore(n, DiskListing(nodes, n))
    \/ \E n \in Selectable(nodes) : CurrentChanged(n, NoResponse)
    \/ \E dest \in DestPaths : Download(dest)
    \/ \E w \in 1..Len(workers) : \E raised \in BOOLEAN :
          \E value \in (IF raised THEN {0} ELSE SyncValues) : Run(w, raised, value)
    \/ \E w \in 1..Len(workers) : SyncFinished(w)

SyncSpec == Init /\ [][SyncNext]_vars

\* The thread pool runs every queued worker and the event loop delivers
\* every emitted signal.
RunSome(w) ==
    \E raised \in BOOLEAN : \E value \in (IF raised THEN {0} ELSE SyncValues) :
       w \in 1..Len(workers) /\ Run(w, raised, value)
DeliverSome(w) == w \in 1..Len(workers) /\ SyncFinished(w)

FairSyncSpec ==
    /\ SyncSpec
    /\ \A w \in 1..MaxDownloads : WF_vars(RunSome(w)) /\ WF_vars(DeliverSome(w))

(***************************************************************************)
(* MapSpec: the extension mapping, against every driver list within the    *)
(* bounds.                                                                 *)
(***************************************************************************)
\* the driver lists one call of update_extension_mapping may read
DriversFor(m) == IF DOMAIN m # {} THEN { <<>> } ELSE DriverLists

MapNext ==
    \/ \E ds \in DriversFor(extension_mapping) : UpdateExtensionMapping(ds)
    \/ \E path \in FindUrls : FindDriverForUrl(path)

MapSpec == Init /\ [][MapNext]_vars

(***************************************************************************)
(* The claims.                                                             *)
(***************************************************************************)
NodeIds == 1..Len(nodes)
ListingOps == {"populate_children", "fetchMore"}
\* the last step was a populate_children or fetchMore on a node of the model
ListedNode == ev.op \in ListingOps /\ ev.node \in NodeIds
\* the step builds a new model
Rebuilds == ev'.op = "populate"
WorkerIds == 1..Len(workers)

C1_Inv ==
    \A n \in NodeIds : /\ nodes[n].opens <= 1
                       /\ nodes[n].opens = 1 => nodes[n].attempted_listing
C1_Step ==
    ~Rebuilds =>
    \A n \in NodeIds :
       /\ (ev'.op = "populate_children" /\ ev'.node = n) => nodes'[n].attempted_listing
       /\ nodes[n].attempted_listing =>
            /\ nodes'[n].attempted_listing
            /\ ~canFetchMore(nodes', n)
            /\ nodes'[n].children = nodes[n].children
            /\ nodes'[n].opens = nodes[n].opens
            /\ (ev'.op \in ListingOps /\ ev'.node = n) => ev'.calls = {}
\* C1: a node's directory is opened at most once: the first
\* populate_children sets _attempted_listing, from then on canFetchMore is
\* false, and every later populate_children or fetchMore on the node calls
\* no library function and leaves the node's children as they are.
C1_ListedAtMostOnce == [](C1_Inv) /\ [][C1_Step]_vars
\* a later call on a node that was listed with children
C1_Witness ==
    /\ ListedNode
    /\ nodes[ev.node].opens = 1
    /\ childCount(nodes, ev.node) > 0
    /\ ev.calls = {}

\* C2: every worker that has run has called Sync once, with its own src and
\* dest, and has emitted finished once, with that src and dest and Sync's
\* value, or 0 when Sync raised; no exception leaves run.
C2_RunEmitsOnce ==
    \A w \in WorkerIds :
       LET wk == workers[w]
       IN /\ ~wk.escaped
          /\ wk.pc = "queued" => (wk.syncCalls = 0 /\ wk.emits = 0)
          /\ wk.pc # "queued" =>
               /\ wk.syncCalls = 1
               /\ wk.called = [src |-> wk.src, dest |-> wk.dest]
               /\ wk.emits = 1
               /\ wk.sig.src = wk.src
               /\ wk.sig.dest = wk.dest
               /\ wk.sig.result = IF wk.raised THEN 0 ELSE wk.value
\* one worker's Sync raised, another's returned 1
C2_Witness ==
    \E v, w \in WorkerIds :
       /\ workers[v].pc # "queued" /\ workers[v].raised
       /\ workers[w].pc # "queued" /\ ~workers[w].raised /\ workers[w].value = 1

StartsOf(w) == { i \in DOMAIN log : log[i].w = w /\ log[i].kind = "start" }
EndsOf(w) == { i \in DOMAIN log : log[i].w = w /\ log[i].kind \in {"success", "failed"} }
C3_Inv ==
    \A w \in WorkerIds :
       /\ Cardinality(StartsOf(w)) = 1
       /\ Cardinality(EndsOf(w)) <= 1
       /\ (workers[w].pc = "done") <=> (EndsOf(w) # {})
       /\ \A j \in StartsOf(w) :
            /\ log[j].src = workers[w].src
            /\ log[j].dest = workers[w].dest
            /\ \A i \in EndsOf(w) :
                 /\ j < i
                 /\ log[i].src = log[j].src
                 /\ log[i].dest = log[j].dest
                 /\ (log[i].kind = "success")
                      <=> (~workers[w].raised /\ workers[w].value = 1)
C3_Live ==
    \A w \in 1..MaxDownloads :
       (w \in WorkerIds) ~> (w \in WorkerIds /\ EndsOf(w) # {})
\* C3: with the thread pool and the event loop fair, every download that
\* logs its start is eventually followed by exactly one completion line for
\* the same src and dest, 'was successful' exactly when Sync returned 1 and
\* 'failed' otherwise, also when Sync raised; so for every one of several
\* downloads running at once.
C3_EveryDownloadCompletes == [](C3_Inv) /\ C3_Live
\* two downloads ran at once, one succeeded and Sync raised in the other
C3_Witness ==
    /\ Len(log) = 4
    /\ log[1].kind = "start" /\ log[2].kind = "start"
    /\ log[3].kind = "success" /\ log[4].kind = "failed"
    /\ \E w \in WorkerIds : workers[w].raised

\* C4: after populate_children has opened a directory node's directory, the
\* node has one child per entry read, in the order read, the URL of each
\* being the node's URL joined with the entry's name.
C4_ChildrenMirrorListing ==
    (ListedNode /\ ev.opened) =>
    LET n  == ev.node
        ch == nodes[n].children
    IN /\ Len(ch) = Len(ev.names)
       /\ \A i \in 1..Len(ch) :
            /\ ch[i] \in NodeIds
            /\ nodes[ch[i]].url = Truediv(nodes[n].url, ev.names[i])
            /\ nodes[ch[i]].url.parts = nodes[n].url.parts \o <<ev.names[i]>>
            /\ nodes[ch[i]].parent = n
            /\ \A j \in 1..Len(ch) : ch[i] = ch[j] => i = j
\* a directory was read as b.tif, a
C4_Witness == ListedNode /\ ev.opened /\ ev.names = <<"b.tif", "a">>

MetadataOps == {"get_metadata", "currentChanged"}
C5_Inv ==
    \A n \in NodeIds :
       /\ nodes[n].queries \in {0, Len(Domains)}
       /\ nodes[n].is_dir => nodes[n].queries = 0
       /\ nodes[n].queries > 0 => nodes[n].attempted_metadata
C5_Step ==
    ~Rebuilds =>
    \A n \in NodeIds :
       /\ (ev'.op = "get_metadata" /\ ev'.node = n) => nodes'[n].attempted_metadata
       /\ (ev'.op = "currentChanged" /\ ev'.node = n) =>
             propertiesTable' = nodes'[n].metadata
       /\ nodes[n].attempted_metadata =>
            /\ nodes'[n].attempted_metadata
            /\ ~canFetchMetadata(nodes', n)
            /\ nodes'[n].queries = nodes[n].queries
            /\ nodes'[n].metadata = nodes[n].metadata
            /\ (ev'.op \in MetadataOps /\ ev'.node = n) => ev'.calls = {}
\* C5: the library is asked for a node's metadata at most once (one pass
\* over the five domains) and never for a directory node: after the first
\* attempt canFetchMetadata stays false, also when nothing was found, and
\* selecting the node again shows the cached metadata without a new query.
C5_MetadataAtMostOnce == [](C5_Inv) /\ [][C5_Step]_vars
\* an object whose one query found nothing has been selected again
C5_Witness ==
    /\ ev.op = "currentChanged"
    /\ ev.node \in NodeIds
    /\ ev.calls = {}
    /\ nodes[ev.node].queries = Len(Domains)
    /\ nodes[ev.node].metadata = EmptyDict

C6_Step ==
    /\ Len(workers') > Len(workers) =>
          /\ ev'.op = "download"
          /\ current # 0
          /\ ~nodes[current].is_dir
          /\ Len(workers') = Len(workers) + 1
          /\ workers'[Len(workers')].src = Str(nodes[current].url)
    /\ (ev'.op = "download" /\ (current = 0 \/ nodes[current].is_dir)) =>
          UNCHANGED <<workers, log>>
\* C6: download starts a worker only when there is a current index and its
\* node is not a directory, and the worker's source is that node's URL; with
\* no selection or a directory selected no worker is started and the log is
\* left as it is.
C6_DownloadOnlyObjects == [][C6_Step]_vars
\* download on a directory, after a download of the object /d/a has started
C6_Witness ==
    /\ ev.op = "download"
    /\ ~ev.ret
    /\ current # 0
    /\ nodes[current].is_dir
    /\ \E w \in WorkerIds : workers[w].src = <<"/", "d", "/", "a">>

\* C7 (as claimed): when fetchMore populates a node, the rows it announces
\* are exactly the children added, rows 0 to childCount - 1, and it
\* announces nothing when no child was added.
C7_AnnouncedRows ==
    (ev.op = "fetchMore" /\ ev.node \in NodeIds /\ "OpenDir" \in ev.calls) =>
    IF childCount(nodes, ev.node) = 0 THEN ~ev.announced
    ELSE /\ ev.announced
         /\ ev.first = 0
         /\ ev.last = childCount(nodes, ev.node) - 1

\* the indexes a caller may hold: the invalid one and one per node below the
\* root, in any column
Columns == 0..(columnCount - 1)
HeldIndexes ==
    { InvalidIndex } \cup
    { createIndex(nodes[n].row, c, n) : n \in NodeIds \ {Root}, c \in Columns }
\* C8 (as claimed): for every valid index I = index(row, column, P),
\* parent(I) refers to the node of P, and is the invalid index when P is.
C8_ParentOfIndex ==
    nodes # <<>> =>
    \A P \in HeldIndexes : \A row \in 0..MaxNodes : \A c \in Columns :
       LET I == index(nodes, row, c, P)
       IN I.valid =>
            IF P.valid THEN parent(nodes, I).valid /\ parent(nodes, I).ptr = P.ptr
            ELSE parent(nodes, I) = InvalidIndex

\* a directory node that was listed and has no child
ListedEmpty(ns, n) == ns[n].is_dir /\ ns[n].attempted_listing /\ ns[n].children = <<>>
C9_Inv ==
    (ListedNode /\ "OpenDir" \in ev.calls /\ ~ev.opened) =>
       /\ ev.ret = FALSE
       /\ ListedEmpty(nodes, ev.node)
       /\ ~canFetchMore(nodes, ev.node)
       /\ ~hasChildren(nodes, ev.node)
C9_Step ==
    ~Rebuilds =>
    \A n \in NodeIds :
       ListedEmpty(nodes, n) =>
          /\ ListedEmpty(nodes', n)
          /\ nodes'[n].opens = nodes[n].opens
          /\ ~canFetchMore(nodes', n)
          /\ ~hasChildren(nodes', n)
\* C9: when OpenDir returns nothing for a directory node, populate_children
\* returns False and the node keeps zero children; the listing is not tried
\* again, and canFetchMore and hasChildren stay false for the node until a
\* new model is built.
C9_FailedOpenIsFinal == [](C9_Inv) /\ [][C9_Step]_vars
\* OpenDir has just failed
C9_Witness == ListedNode /\ "OpenDir" \in ev.calls /\ ~ev.opened

RefreshOps == {"refresh", "populate"}
C10_Step ==
    ev'.op \in RefreshOps =>
       /\ (ev'.op = "populate") <=> (url # urlEdit)
       /\ url = urlEdit =>
            /\ UNCHANGED <<url, urlEdit, nodes, current, propertiesTable, log, workers>>
            /\ ev'.calls = {}
       /\ url # urlEdit =>
            /\ url' = urlEdit
            /\ urlEdit' = url'
            /\ Len(nodes') = 1
            /\ nodes'[Root].url = PurePosixPath(urlEdit)
            /\ nodes'[Root].parent = 0
            /\ ~nodes'[Root].attempted_listing
            /\ nodes'[Root].children = <<>>
            /\ nodes'[Root].opens = 0
C11_RowsAndParents ==
    \A n \in NodeIds :
       /\ \A i \in (-1)..(MaxNodes + 1) :
            IF 0 <= i /\ i < childCount(nodes, n)
            THEN /\ child(nodes, n, i) \in NodeIds
                 /\ nodes[child(nodes, n, i)].row = i
                 /\ nodes[child(nodes, n, i)].parent = n
            ELSE child(nodes, n, i) = 0
       /\ (nodes[n].parent = 0) <=> (n = Root)
\* a directory has just been listed with two children
C11_Witness ==
    /\ \E n \in NodeIds : childCount(nodes, n) = 2
    /\ ev.op \in ListingOps

\* C12 (as claimed): a worker is started only with a non-empty destination:
\* when the save-file dialog returns the empty path, no worker is started,
\* Sync is not called and no 'Starting a thread' line is logged.
C12_NoWorkerWithoutDest ==
    /\ \A w \in WorkerIds :
         /\ workers[w].dest # ""
         /\ workers[w].syncCalls > 0 => workers[w].called.dest # ""
    /\ \A i \in DOMAIN log : log[i].kind = "start" => log[i].dest # ""

C13_Inv ==
    \A n \in NodeIds :
       /\ ~nodes[n].is_dir =>
            /\ childCount(nodes, n) = 0
            /\ ~canFetchMore(nodes, n)
            /\ ~hasChildren(nodes, n)
       /\ hasChildren(nodes, n) <=>
            \/ nodes[n].is_dir /\ ~nodes[n].attempted_listing
            \/ childCount(nodes, n) >= 1
C13_Step ==
    ~Rebuilds =>
    \A n \in NodeIds :
       /\ nodes'[n].is_dir = nodes[n].is_dir
       /\ (ev'.op \in ListingOps /\ ev'.node = n /\ nodes[n].is_dir
             /\ ~nodes[n].attempted_listing /\ childCount(nodes', n) = 0) =>
              hasChildren(nodes, n) /\ ~hasChildren(nodes', n)
       /\ ~hasChildren(nodes, n) => ~hasChildren(nodes', n)
\* C13: a node whose stat did not report a directory (a failed stat
\* included) has no children, and canFetchMore and hasChildren are false for
\* it; hasChildren is true exactly for a directory not yet listed and for a
\* node with at least one child, so a directory listed as empty goes from
\* hasChildren true to false and stays there.
C13_OnlyDirectoriesHaveChildren == [](C13_Inv) /\ [][C13_Step]_vars
\* below the root, a directory has been listed as empty and
\* populate_children has been called on an object
C13_Witness ==
    \E n, m \in NodeIds \ {Root} :
       /\ ListedEmpty(nodes, n)
       /\ ~nodes[m].is_dir /\ nodes[m].attempted_listing

\* the extensions a driver declares, lower-cased
Separators == {",", ";", " "}
DeclaredBy(driver) ==
    IF ~driver.present THEN {}
    ELSE (IF driver.ext # <<>> THEN { Lower(driver.ext[1]) } ELSE {})
         \cup (IF driver.exts # <<>>
               THEN { Lower(driver.exts[1][i]) : i \in DOMAIN driver.exts[1] }
                    \ Separators
               ELSE {})
NeverMapped == {"xml", "bin", "txt"}
\* the lowest index of a driver of ds declaring ext
FirstDeclaring(ds, ext) ==
    CHOOSE i \in DOMAIN ds :
       /\ ext \in DeclaredBy(ds[i])
       /\ \A j \in DOMAIN ds : ext \in DeclaredBy(ds[j]) => i <= j
C14_Inv ==
    /\ (ev.op = "update_extension_mapping" /\ ev.ret) =>
         LET ds == ev.drivers
         IN /\ DOMAIN extension_mapping =
                 UNION { DeclaredBy(ds[i]) : i \in DOMAIN ds } \ NeverMapped
            /\ \A ext \in DOMAIN extension_mapping :
                 extension_mapping[ext] = ds[FirstDeclaring(ds, ext)].name
    /\ ev.op = "find_driver_for_url" =>
         LET name == IF ev.path = <<>> THEN <<>> ELSE ev.path[Len(ev.path)]
             last == Len(name)
         IN IF last >= 3 /\ name[last - 1] = "." /\ name[last] \in DOMAIN extension_mapping
            THEN ev.found = <<extension_mapping[name[last]]>>
            ELSE ev.found = <<>>
C14_Step ==
    /\ (ev'.op = "update_extension_mapping" /\ extension_mapping # EmptyDict) =>
          /\ extension_mapping' = extension_mapping
          /\ ev'.calls = {}
    /\ ev'.op = "find_driver_for_url" => extension_mapping' = extension_mapping
\* C14: update_extension_mapping on an empty mapping maps every extension
\* some driver declares, lower-cased and other than xml, bin and txt, to the
\* short name of the lowest-indexed driver declaring it; on a non-empty
\* mapping it changes nothing; find_driver_for_url returns the name mapped
\* to the final suffix of the path without its dot, and nothing when the
\* path has no suffix or the suffix is not mapped.
C14_ExtensionMapping == [](C14_Inv) /\ [][C14_Step]_vars
\* two drivers of different names declare tif, one of them as TIF, and one
\* of them declares an extension that is never mapped
C14_Witness ==
    /\ ev.op = "update_extension_mapping" /\ ev.ret
    /\ Len(ev.drivers) = 2
    /\ ev.drivers[1].name # ev.drivers[2].name
    /\ "tif" \in DeclaredBy(ev.drivers[1]) \cap DeclaredBy(ev.drivers[2])
    /\ \E i \in 1..2 : ev.drivers[i].ext = <<"TIF">>
    /\ \E i \in 1..2 : DeclaredBy(ev.drivers[i]) \cap NeverMapped # {}
    /\ extension_mapping["tif"] = ev.drivers[1].name
=============================================================================
